---- MODULE Spec2Model ----
(***************************************************************************)
(* Model of app.py: the workbook normalizer (process_file), the upsert     *)
(* into the "Actual" worksheet (update_google_sheet, driven by             *)
(* handle_upload), and the report built on refresh (update_tabs and        *)
(* make_table).                                                            *)
(*                                                                         *)
(* Data representation                                                     *)
(*   - a numeric cell is a record [nan, v]: NaN (missing) or Num(n);       *)
(*   - a date is a day number, NaT (0) is pandas' "not a time";            *)
(*   - a DataFrame is a sequence of row records; a row record carries      *)
(*     its index label in the field idx where the code relies on it;       *)
(*   - the text of a workbook's Date cell is the record of the two things  *)
(*     the code looks for in it: the word "Forecast" and a dd-MON-yyyy     *)
(*     substring.                                                          *)
(***************************************************************************)
EXTENDS Integers, Sequences, FiniteSets, TLC

VARIABLES
    wsActual,        \* worksheet "Actual_25-26": [header, rows]
    wsBudget,        \* worksheet "Budget_25-26": [header, rows]
    pc,              \* position of handle_upload: "idle", "clear", "update"
    upload,          \* the files of the upload being handled (contents, filenames)
    final_df,        \* handle_upload: the concatenated frames of the upload
    existing,        \* update_google_sheet: the table read by get_all_values
    processed,       \* update_google_sheet: processed_df after the pickup step
    updated,         \* update_google_sheet: updated_df, the rows to write
    status,          \* what handle_upload returned to 'upload-status'
    prevBatch,       \* final_df of the previous completed upsert
    uploads,         \* number of uploads handled so far
    selected_month,  \* value of 'month-dropdown'
    pivot_df,        \* update_tabs: pivot_df after the actual-only filter
    tabs,            \* what update_tabs returned to 'tabs-container', and the
                     \* month it was called with
    norm_file,       \* a file handed to process_file on its own
    norm_out,        \* and what process_file made of it
    other            \* the writes of other writers to the Actual sheet: how
                     \* many, where handle_upload stood, and the rows they left

vars == <<wsActual, wsBudget, pc, upload, final_df, existing, processed, updated,
          status, prevBatch, uploads, selected_month, pivot_df, tabs,
          norm_file, norm_out, other>>

----------------------------------------------------------------------------
(* Bounds of the model                                                     *)

MaxUploads == 2      \* uploads handled in one behaviour
MaxFiles == 2        \* files in one upload
MaxRows == 1         \* source rows of a workbook in an upload
MaxSourceRows == 3   \* source rows of a workbook normalized on its own
MaxActualRows == 2   \* rows of the Actual sheet a report is built from
MaxBudgetRows == 1   \* rows of the Budget sheet a report is built from
MaxOtherWrites == 2   \* writes of other writers in one behaviour

----------------------------------------------------------------------------
(* Values                                                                  *)

NaN == [nan |-> TRUE, v |-> 0]
Num(n) == [nan |-> FALSE, v |-> n]
NaT == 0
Dates == {1, 2}

RECURSIVE SeqsUpTo(_, _)
SeqsUpTo(S, n) ==
    IF n = 0 THEN {<<>>}
    ELSE LET shorter == SeqsUpTo(S, n - 1)
         IN  shorter \cup {Append(s, x) : s \in {t \in shorter : Len(t) = n - 1}, x \in S}

SelectIdx(s, Test(_)) ==    \* the indexes of s that pass Test, ascending
    LET RECURSIVE Go(_)
        Go(i) == IF i > Len(s) THEN <<>>
                 ELSE IF Test(s[i]) THEN <<i>> \o Go(i + 1) ELSE Go(i + 1)
    IN  Go(1)

Properties == {"A", "B"}
PropRank(p) == IF p = "A" THEN 1 ELSE 2

\* strftime('%b-%Y') of a day number counted from 1 July 2025
MonthYear(d) == IF d <= 31 THEN "Jul-2025" ELSE "Aug-2025"

(* Text of a worksheet cell: what astype(str) writes and get_all_values    *)
(* returns.                                                                *)
IsText(x) == "txt" \in DOMAIN x
AsStr(x) ==            \* str() of a numeric cell; a text cell is unchanged
    IF IsText(x) THEN x
    ELSE IF x.nan THEN [txt |-> "nan", v |-> 0] ELSE [txt |-> "num", v |-> x.v]
DateStr(d) == IF d = NaT THEN [txt |-> "NaT", v |-> 0] ELSE [txt |-> "date", v |-> d]
\* pd.to_numeric(..., errors='coerce')
ToNumeric(x) ==
    IF IsText(x) THEN (IF x.txt = "num" THEN Num(x.v) ELSE NaN) ELSE x
\* pd.to_datetime(..., errors='coerce')
ToDatetime(t) == IF t.txt = "date" THEN t.v ELSE NaT

----------------------------------------------------------------------------
(* process_file                                                            *)

\* filename.split()[1].split('.')[0]; a filename is its whitespace-separated
\* tokens, each token its dot-separated parts
NameOk(filename) == Len(filename) >= 2
hotel_name(filename) == filename[2][1]

\* index of the first source row whose Date text contains "Forecast"; 0 for None
forecast_start_index(rows) ==
    LET hits == SelectIdx(rows, LAMBDA r : r.Date.forecast)
    IN  IF Len(hits) > 0 THEN hits[1] ELSE 0

LabelOfLe(rows, i) ==
    LET f == forecast_start_index(rows)
    IN  IF f /= 0 THEN (IF i <= f THEN "History" ELSE "Forecast") ELSE "History"

LabelOf(rows, i) ==
    LET f == forecast_start_index(rows)
    IN  IF f /= 0 THEN (IF i < f THEN "History" ELSE "Forecast") ELSE "History"

\* the frame process_file returns: the rows with a parseable date, in source
\* order, each under its source index
process_rows(rows, filename) ==
    LET kept == SelectIdx(rows, LAMBDA r : r.Date.date /= NaT)
    IN  [k \in 1..Len(kept) |->
            LET i == kept[k]
            IN  [idx      |-> i,
                 Property |-> hotel_name(filename),
                 Date     |-> rows[i].Date.date,
                 TotalOcc |-> rows[i].TotalOcc,
                 AvgRate  |-> rows[i].AvgRate,
                 Revenue  |-> rows[i].Revenue,
                 Label    |-> LabelOf(rows, i),
                 MonthYear |-> MonthYear(rows[i].Date.date)]]

\* [ok, df]: ok is FALSE when process_file raises (no Sheet2 to read, or no
\* second token in the filename)
process_file(file) ==
    IF file.contents.readable /\ NameOk(file.filename)
    THEN [ok |-> TRUE, df |-> process_rows(file.contents.rows, file.filename)]
    ELSE [ok |-> FALSE, df |-> <<>>]

----------------------------------------------------------------------------
(* update_google_sheet                                                     *)

\* pandas sort_values(by=["Property", "Date"]) order; NaT sorts last
Before(a, b) ==
    \/ PropRank(a.Property) < PropRank(b.Property)
    \/ a.Property = b.Property /\ a.Date /= NaT /\ (b.Date = NaT \/ a.Date < b.Date)

\* sort_values by two columns is a lexsort, which is stable
RECURSIVE InsertRow(_, _)
InsertRow(s, x) ==
    IF s = <<>> THEN <<x>>
    ELSE IF Before(x, Head(s)) THEN <<x>> \o s
    ELSE <<Head(s)>> \o InsertRow(Tail(s), x)

RECURSIVE sort_values(_)
sort_values(s) ==
    IF s = <<>> THEN <<>>
    ELSE InsertRow(sort_values(SubSeq(s, 1, Len(s) - 1)), s[Len(s)])

RECURSIVE Concat(_)
Concat(ss) == IF ss = <<>> THEN <<>> ELSE Head(ss) \o Concat(Tail(ss))

SameKey(a, b) == a.Property = b.Property /\ a.Date = b.Date

\* get_all_values() as a frame, Date parsed and Total Occ / Revenue made
\* numeric; the other columns keep the sheet's text
existing_df(ws) ==
    [k \in 1..Len(ws.rows) |->
        [ws.rows[k] EXCEPT !.Date = ToDatetime(@),
                           !.TotalOcc = ToNumeric(@),
                           !.Revenue = ToNumeric(@)]]

\* (a - b).fillna(0): NaN on either side makes the difference NaN, then 0
Pickup(new, prev) ==
    IF new.nan \/ prev.nan THEN Num(0) ELSE Num(new.v - prev.v)

\* the rows of the left merge for one incoming row: one per prior row at the
\* key, in the prior table's order, or a single one with no prior values
compare_rows(r, prior) ==
    LET hits == SelectIdx(prior, LAMBDA e : SameKey(e, r))
        new  == [Property |-> r.Property, Date |-> r.Date,
                 TotalOcc |-> ToNumeric(r.TotalOcc), AvgRate |-> r.AvgRate,
                 Revenue |-> ToNumeric(r.Revenue), Label |-> r.Label,
                 MonthYear |-> r.MonthYear]
        With(po, pr) == [Property |-> new.Property, Date |-> new.Date,
                         TotalOcc |-> new.TotalOcc, AvgRate |-> new.AvgRate,
                         Revenue |-> new.Revenue, Label |-> new.Label,
                         MonthYear |-> new.MonthYear,
                         PickupOcc |-> Pickup(new.TotalOcc, po),
                         PickupRevenue |-> Pickup(new.Revenue, pr)]
    IN  IF Len(hits) = 0 THEN <<With(NaN, NaN)>>
        ELSE [k \in 1..Len(hits) |->
                 With(prior[hits[k]].TotalOcc, prior[hits[k]].Revenue)]

\* processed_df after the pickup step (lines 123-141)
compare_df(batch, prior) ==
    Concat([k \in 1..Len(batch) |-> compare_rows(batch[k], prior)])

\* replacement by (Property, Month-Year) instead of (Property, Date)
remove_month(prior, batch) ==
    LET keep == SelectIdx(prior,
                    LAMBDA e : \A k \in 1..Len(batch) :
                        ~(e.Property = batch[k].Property
                          /\ e.MonthYear = batch[k].MonthYear))
    IN  [k \in 1..Len(keep) |-> prior[keep[k]]]

\* lines 143-145: the prior rows whose key is not a key of the batch

remove_overlapping(prior, batch) ==
    LET keep == SelectIdx(prior,
                    LAMBDA e : \A k \in 1..Len(batch) : ~SameKey(e, batch[k]))
    IN  [k \in 1..Len(keep) |-> prior[keep[k]]]

\* lines 147-149
updated_df(prior, proc) == sort_values(remove_overlapping(prior, proc) \o proc)

\* updated_df.astype(str).values.tolist()
sheet_values(df) ==
    [k \in 1..Len(df) |->
        [df[k] EXCEPT !.Date = DateStr(@),
                      !.TotalOcc = AsStr(@), !.AvgRate = AsStr(@),
                      !.Revenue = AsStr(@),
                      !.PickupOcc = AsStr(@), !.PickupRevenue = AsStr(@)]]

CountProps(df) == Cardinality({df[k].Property : k \in 1..Len(df)})

----------------------------------------------------------------------------
(* Inputs of an upload                                                     *)

\* "Daily A.xlsx", "Daily B.xlsx", and "A.xlsx", which has no second token
Filenames == { << <<"Daily">>, <<"A", "xlsx">> >>,
               << <<"Daily">>, <<"B", "xlsx">> >>,
               << <<"A", "xlsx">> >> }

\* Date cells: "01-JUL-2025", "Forecast 02-JUL-2025", and the heading "Forecast"
UploadDateCells == {[forecast |-> FALSE, date |-> 1],
                    [forecast |-> TRUE, date |-> 2],
                    [forecast |-> TRUE, date |-> NaT]}

\* (Total Occ, Revenue) of a source row
OccRev == {<<NaN, Num(5)>>, <<Num(1), NaN>>, <<Num(2), Num(7)>>}

UploadRows ==
    {[Date |-> c, TotalOcc |-> p[1], AvgRate |-> Num(3), Revenue |-> p[2]] :
        c \in {d \in UploadDateCells : d.date /= NaT}, p \in OccRev}
    \cup {[Date |-> c, TotalOcc |-> NaN, AvgRate |-> NaN, Revenue |-> NaN] :
        c \in {d \in UploadDateCells : d.date = NaT}}

Workbooks ==
    {[readable |-> TRUE, rows |-> s] : s \in SeqsUpTo(UploadRows, MaxRows) \ {<<>>}}

Files == {[contents |-> w, filename |-> f] : w \in Workbooks, f \in Filenames}

Uploads == SeqsUpTo(Files, MaxFiles)

----------------------------------------------------------------------------
(* handle_upload                                                           *)

NoStatus == [kind |-> "none", name |-> <<>>, rows |-> 0, props |-> 0]
EmptySheet == [header |-> FALSE, rows |-> <<>>]

\* an update() that is not preceded by clear()
worksheet_keep(ws) == ws

\* line 152: worksheet.clear() empties every cell
worksheet_clear(ws) == EmptySheet

\* line 153: worksheet.update(values) writes the header and the rows from cell
\* A1 down; the rows of the sheet below the last row written stay
worksheet_update(ws, rows) ==
    [header |-> TRUE, rows |-> rows \o SubSeq(ws.rows, Len(rows) + 1, Len(ws.rows))]

Results(files) == [k \in 1..Len(files) |-> process_file(files[k])]
Failing(files) == SelectIdx(Results(files), LAMBDA r : ~r.ok)

\* all_dfs: the non-empty frames, index dropped by concat(ignore_index=True)
Batch(files) ==
    LET all == Concat([k \in 1..Len(files) |-> Results(files)[k].df])
    IN  [k \in 1..Len(all) |->
            [Property |-> all[k].Property, Date |-> all[k].Date,
             TotalOcc |-> all[k].TotalOcc, AvgRate |-> all[k].AvgRate,
             Revenue |-> all[k].Revenue, Label |-> all[k].Label,
             MonthYear |-> all[k].MonthYear]]

\* the uploads by how handle_upload's loop ends on them
FailingUploads == {files \in Uploads : Failing(files) /= <<>>}
EmptyUploads ==
    {files \in Uploads : files /= <<>> /\ Failing(files) = <<>> /\ Batch(files) = <<>>}
ValidUploads ==
    {files \in Uploads : Failing(files) = <<>> /\ Batch(files) /= <<>>}

Returns(files, st) ==
    /\ pc = "idle"
    /\ uploads < MaxUploads
    /\ uploads' = uploads + 1
    /\ upload' = files
    /\ status' = st
    /\ final_df' = <<>>
    /\ prevBatch' = <<>>
    /\ existing' = <<>>
    /\ processed' = <<>>
    /\ updated' = <<>>
    /\ UNCHANGED <<wsActual, wsBudget, pc, selected_month, pivot_df, tabs,
                   norm_file, norm_out, other>>

\* line 317: nothing was uploaded
HandleUploadNone ==
    Returns(<<>>, [NoStatus EXCEPT !.kind = "No files uploaded."])

\* lines 308-309: the first file that raises ends the callback
HandleUploadError ==
    /\ pc = "idle"
    /\ uploads < MaxUploads
    /\ \E files \in FailingUploads :
           Returns(files, [NoStatus EXCEPT !.kind = "Error processing",
                               !.name = files[Failing(files)[1]].filename])

\* lines 311-312
HandleUploadNoData ==
    /\ pc = "idle"
    /\ uploads < MaxUploads
    /\ \E files \in EmptyUploads :
           Returns(files, [NoStatus EXCEPT !.kind = "No valid data found."])

\* lines 314-315 and update_google_sheet up to its write (lines 88-149)
HandleUploadRead ==
    /\ pc = "idle"
    /\ uploads < MaxUploads
    /\ \E files \in ValidUploads :
        /\ uploads' = uploads + 1
        /\ upload' = files
        /\ final_df' = Batch(files)
        /\ prevBatch' = IF status.kind = "rows updated" THEN final_df ELSE <<>>
        /\ existing' = existing_df(wsActual)
        /\ processed' = compare_df(final_df', existing')
        /\ updated' = updated_df(existing', processed')
        /\ status' = NoStatus
        /\ pc' = "clear"
        /\ UNCHANGED <<wsActual, wsBudget, selected_month, pivot_df, tabs,
                       norm_file, norm_out, other>>

\* line 152: worksheet.clear()
Clear ==
    /\ pc = "clear"
    /\ wsActual' = worksheet_clear(wsActual)
    /\ pc' = "update"
    /\ UNCHANGED <<wsBudget, upload, final_df, existing, processed, updated,
                   status, prevBatch, uploads, selected_month, pivot_df, tabs,
                   norm_file, norm_out, other>>

\* line 152 raises: the callback ends with the exception
ClearFails ==
    /\ pc = "clear"
    /\ pc' = "idle"
    /\ status' = [NoStatus EXCEPT !.kind = "exception"]
    /\ UNCHANGED <<wsActual, wsBudget, upload, final_df, existing, processed,
                   updated, prevBatch, uploads, selected_month, pivot_df, tabs,
                   norm_file, norm_out, other>>

\* lines 153-159: worksheet.update(header + rows) and the summary
Update ==
    /\ pc = "update"
    /\ wsActual' = worksheet_update(wsActual, sheet_values(updated))
    /\ pc' = "idle"
    /\ status' = [NoStatus EXCEPT !.kind = "rows updated",
                      !.rows = Len(processed), !.props = CountProps(processed)]
    /\ UNCHANGED <<wsBudget, upload, final_df, existing, processed, updated,
                   prevBatch, uploads, selected_month, pivot_df, tabs,
                   norm_file, norm_out, other>>

\* line 153 raises after line 152 cleared the sheet
UpdateFails ==
    /\ pc = "update"
    /\ pc' = "idle"
    /\ status' = [NoStatus EXCEPT !.kind = "exception"]
    /\ UNCHANGED <<wsActual, wsBudget, upload, final_df, existing, processed,
                   updated, prevBatch, uploads, selected_month, pivot_df, tabs,
                   norm_file, norm_out, other>>

----------------------------------------------------------------------------
(* make_table                                                              *)

Column(data, Col(_)) == [k \in 1..Len(data) |-> Col(data[k])]

RECURSIVE SumSkipNa(_)
SumSkipNa(series) ==
    IF series = <<>> THEN 0
    ELSE (IF Head(series).nan THEN 0 ELSE Head(series).v) + SumSkipNa(Tail(series))

AnyNotNa(series) == \E k \in 1..Len(series) : ~series[k].nan
CountNotNa(series) == Cardinality({k \in 1..Len(series) : ~series[k].nan})

\* safe_sum: the numpy sum of the column, or Python's int 0
safe_sum(series) == Num(SumSkipNa(series))

\* safe_mean: round(mean, 2) as a number of hundredths (ties to even), or 0
safe_mean(series) ==
    IF ~AnyNotNa(series) THEN [k |-> "ratio", num |-> 0, den |-> 1]
    ELSE LET n == 100 * SumSkipNa(series)
             c == CountNotNa(series)
             q == n \div c
             r == n % c
         IN  [k |-> "ratio",
              num |-> IF 2 * r < c THEN q
                      ELSE IF 2 * r > c THEN q + 1
                      ELSE IF q % 2 = 0 THEN q ELSE q + 1,
              den |-> 100]

(* safe_sum(revenue) / safe_sum(occupancy).  When neither column has a     *)
(* value both sums are Python's int 0 and the division raises              *)
(* ZeroDivisionError; a numpy sum of 0 divides to nan or inf instead.      *)
Ratio(rev, occ) ==
    LET n == SumSkipNa(rev)
        d == SumSkipNa(occ)
    IN  IF ~AnyNotNa(rev) /\ ~AnyNotNa(occ)
        THEN [k |-> "ZeroDivisionError", num |-> 0, den |-> 0]
        ELSE IF d = 0
        THEN [k |-> IF n = 0 THEN "nan" ELSE "inf", num |-> n, den |-> 0]
        ELSE [k |-> "ratio", num |-> n, den |-> d]

Partition(data, label) ==
    LET keep == SelectIdx(data, LAMBDA r : r.Label = label)
    IN  [k \in 1..Len(keep) |-> data[keep[k]]]

\* lines 179, 196 and 212: every synthetic row divides the History sums
ActualRate(data, part) ==
    LET history_data == Partition(data, "History")
    IN  Ratio(Column(history_data, LAMBDA r : r.ActualRevenue),
              Column(history_data, LAMBDA r : r.ActualOcc))

SyntheticRow(data, part, day, label) ==
    [Day |-> day, Month |-> "",
     ActualOcc |-> safe_sum(Column(part, LAMBDA r : r.ActualOcc)),
     BudgetOcc |-> safe_sum(Column(part, LAMBDA r : r.BudgetOcc)),
     PickupOcc |-> safe_sum(Column(part, LAMBDA r : r.PickupOcc)),
     ActualRate |-> ActualRate(data, part),
     BudgetRate |-> safe_mean(Column(part, LAMBDA r : r.BudgetRate)),
     ActualRevenue |-> safe_sum(Column(part, LAMBDA r : r.ActualRevenue)),
     BudgetRevenue |-> safe_sum(Column(part, LAMBDA r : r.BudgetRevenue)),
     PickupRevenue |-> safe_sum(Column(part, LAMBDA r : r.PickupRevenue)),
     Label |-> label]

history_row(data) ==
    SyntheticRow(data, Partition(data, "History"), "Subtotal (History)", "History")
forecast_row(data) ==
    SyntheticRow(data, Partition(data, "Forecast"), "Subtotal (Forecast)", "Forecast")
total_row(data) == SyntheticRow(data, data, "Total", "")

\* [raised, rows]: the data rows and the three synthetic rows (lines 162-221)
make_table(data) ==
    LET synth == <<history_row(data), forecast_row(data), total_row(data)>>
    IN  IF \E k \in 1..3 : synth[k].ActualRate.k = "ZeroDivisionError"
        THEN [raised |-> TRUE, rows |-> <<>>]
        ELSE [raised |-> FALSE, rows |-> data \o synth]

----------------------------------------------------------------------------
(* update_tabs                                                             *)

MonthName(d) == IF d <= 31 THEN "July" ELSE "August"

\* lines 370-374, 409, 419-424, 428: the Actual rows of the selected month
\* with a parseable date, numbers made numeric
actual_df_clean(ws, month) ==
    LET keep == SelectIdx(ws.rows,
                    LAMBDA r : r.MonthYear = month /\ ToDatetime(r.Date) /= NaT)
    IN  [k \in 1..Len(keep) |->
            LET r == ws.rows[keep[k]]
            IN  [Property |-> r.Property, Date |-> ToDatetime(r.Date),
                 TotalOcc |-> ToNumeric(r.TotalOcc), AvgRate |-> ToNumeric(r.AvgRate),
                 Revenue |-> ToNumeric(r.Revenue), Label |-> r.Label,
                 PickupOcc |-> ToNumeric(r.PickupOcc),
                 PickupRevenue |-> ToNumeric(r.PickupRevenue)]]

\* lines 371, 410, 419-424, 429: the Budget rows whose date parses as %d-%b-%y
budget_df_clean(ws) ==
    LET keep == SelectIdx(ws.rows, LAMBDA r : ToDatetime(r.Date) /= NaT)
    IN  [k \in 1..Len(keep) |->
            LET r == ws.rows[keep[k]]
            IN  [Property |-> r.Property, Date |-> ToDatetime(r.Date),
                 TotalOcc |-> ToNumeric(r.TotalOcc), AvgRate |-> ToNumeric(r.AvgRate),
                 Revenue |-> ToNumeric(r.Revenue), Label |-> r.Label]]

MergedRow(key, a, b, label) ==
    [Property |-> key.Property, Date |-> key.Date,
     Day |-> key.Date, Month |-> MonthName(key.Date),
     ActualOcc |-> a.TotalOcc, BudgetOcc |-> b.TotalOcc, PickupOcc |-> a.PickupOcc,
     ActualRate |-> a.AvgRate, BudgetRate |-> b.AvgRate,
     ActualRevenue |-> a.Revenue, BudgetRevenue |-> b.Revenue,
     PickupRevenue |-> a.PickupRevenue, Label |-> label]

NoSide == [TotalOcc |-> NaN, AvgRate |-> NaN, Revenue |-> NaN,
           PickupOcc |-> NaN, PickupRevenue |-> NaN]

\* lines 441-487: the outer merge on (Property, Date), Label from the Actual
\* side and from the Budget side where there is no Actual row
merged_df(actual, budget) ==
    LET OfActual(a) ==
            LET hits == SelectIdx(budget, LAMBDA b : SameKey(a, b))
            IN  IF Len(hits) = 0 THEN <<MergedRow(a, a, NoSide, a.Label)>>
                ELSE [k \in 1..Len(hits) |-> MergedRow(a, a, budget[hits[k]], a.Label)]
        only == SelectIdx(budget,
                    LAMBDA b : \A k \in 1..Len(actual) : ~SameKey(actual[k], b))
    IN  Concat([k \in 1..Len(actual) |-> OfActual(actual[k])])
        \o [k \in 1..Len(only) |->
               MergedRow(budget[only[k]], NoSide, budget[only[k]], budget[only[k]].Label)]

\* lines 492-494
pivot_filter(merged) ==
    LET keep == SelectIdx(merged, LAMBDA r : ~r.ActualOcc.nan)
    IN  sort_values([k \in 1..Len(keep) |-> merged[keep[k]]])

\* the columns make_table is given (lines 508-511)
TableColumns(r) ==
    [Day |-> r.Day, Month |-> r.Month, ActualOcc |-> r.ActualOcc,
     BudgetOcc |-> r.BudgetOcc, PickupOcc |-> r.PickupOcc,
     ActualRate |-> r.ActualRate, BudgetRate |-> r.BudgetRate,
     ActualRevenue |-> r.ActualRevenue, BudgetRevenue |-> r.BudgetRevenue,
     PickupRevenue |-> r.PickupRevenue, Label |-> r.Label]

Group(pivot, prop) ==
    LET keep == SelectIdx(pivot, LAMBDA r : r.Property = prop)
    IN  [k \in 1..Len(keep) |-> TableColumns(pivot[keep[k]])]

\* groupby("Property") visits the properties in sorted order
RECURSIVE GroupKeys(_, _)
GroupKeys(pivot, rank) ==
    IF rank > Cardinality(Properties) THEN <<>>
    ELSE LET p == CHOOSE q \in Properties : PropRank(q) = rank
         IN  (IF \E k \in 1..Len(pivot) : pivot[k].Property = p THEN <<p>> ELSE <<>>)
             \o GroupKeys(pivot, rank + 1)

Message(text) == [kind |-> text, tables |-> <<>>, pivot |-> <<>>]

\* lines 502-522: one tab per property; an exception of make_table is caught
\* by the handler's try/except and becomes the whole answer
generate_tabs(pivot) ==
    LET props == GroupKeys(pivot, 1)
        made  == [k \in 1..Len(props) |-> make_table(Group(pivot, props[k]))]
    IN  IF \E k \in 1..Len(made) : made[k].raised
        THEN [kind |-> "Error: division by zero", tables |-> <<>>, pivot |-> pivot]
        ELSE [kind |-> "Tabs",
              tables |-> [k \in 1..Len(props) |->
                             [label |-> props[k], rows |-> made[k].rows]],
              pivot |-> pivot]

update_tabs(actual_ws, budget_ws, month) ==
    IF ~actual_ws.header \/ ~budget_ws.header
    THEN Message("Failed to fetch data from Google Sheets.")
    ELSE LET actual == actual_df_clean(actual_ws, month)
             budget == budget_df_clean(budget_ws)
             pivot  == pivot_filter(merged_df(actual, budget))
         IN  IF actual = <<>> THEN Message("No valid actual data found after cleaning.")
             ELSE IF budget = <<>>
             THEN Message("No valid budget data found after cleaning.")
             ELSE IF pivot = <<>>
             THEN Message("No rows with actual occupancy data found.")
             ELSE generate_tabs(pivot)

NoFile == [contents |-> [readable |-> FALSE, rows |-> <<>>], filename |-> <<>>]
NotCalled == [called |-> FALSE, ok |-> FALSE, df |-> <<>>]

BudgetRow(p, date) ==
    [Property |-> p, Date |-> date,
     TotalOcc |-> AsStr(Num(3)), AvgRate |-> AsStr(Num(4)),
     Revenue |-> AsStr(Num(12)), Label |-> "Budget"]

\* the Budget sheet behind the uploads: one budgeted day of property A
BudgetOfA == [header |-> TRUE, rows |-> <<BudgetRow("A", DateStr(1))>>]

----------------------------------------------------------------------------
(* The refresh callbacks                                                   *)

\* populate_month_dropdown: the default month is the current month when the
\* sheet has it, else the sheet's first month; the callback raises, and the
\* value stays, when the sheet has no rows
PopulateMonthDropdown ==
    /\ wsActual.rows /= <<>>
    /\ \E now \in {"Jul-2025", "Aug-2025"} :
         LET months == {wsActual.rows[k].MonthYear : k \in 1..Len(wsActual.rows)}
             first  == IF "Jul-2025" \in months THEN "Jul-2025" ELSE "Aug-2025"
         IN  selected_month' = IF now \in months THEN now ELSE first
    /\ UNCHANGED <<wsActual, wsBudget, pc, upload, final_df, existing, processed,
                   updated, status, prevBatch, uploads, pivot_df, tabs,
                   norm_file, norm_out, other>>

UpdateTabs ==
    /\ LET out == update_tabs(wsActual, wsBudget, selected_month)
       IN  /\ tabs' = [kind |-> out.kind, tables |-> out.tables,
                       month |-> selected_month]
           /\ pivot_df' = out.pivot
    /\ UNCHANGED <<wsActual, wsBudget, pc, upload, final_df, existing, processed,
                   updated, status, prevBatch, uploads, selected_month,
                   norm_file, norm_out, other>>

----------------------------------------------------------------------------
(* Other writers of the Actual sheet                                       *)

NoOther == [n |-> 0, at |-> {}, rows |-> <<>>]

\* where handle_upload stands: before its read, between its read and its
\* clear(), between its clear() and its update(), after its update()
Phase ==
    IF pc = "idle" THEN (IF status.kind = "rows updated" THEN "after" ELSE "before")
    ELSE pc

\* update_google_sheet run from its read to its write by another worker
upsert(ws, batch) ==
    LET prior == existing_df(ws)
        proc  == compare_df(batch, prior)
    IN  worksheet_update(worksheet_clear(ws), sheet_values(updated_df(prior, proc)))

\* the uploads of the other worker: "Daily B.xlsx" with 01-JUL-2025 and
\* "Daily A.xlsx" with the forecast of 02-JUL-2025
OtherUploads ==
    { << [contents |-> [readable |-> TRUE,
                        rows |-> <<[Date |-> [forecast |-> FALSE, date |-> 1],
                                    TotalOcc |-> Num(2), AvgRate |-> Num(3),
                                    Revenue |-> Num(7)]>>],
          filename |-> << <<"Daily">>, <<"B", "xlsx">> >>] >>,
      << [contents |-> [readable |-> TRUE,
                        rows |-> <<[Date |-> [forecast |-> TRUE, date |-> 2],
                                    TotalOcc |-> Num(1), AvgRate |-> Num(3),
                                    Revenue |-> NaN]>>],
          filename |-> << <<"Daily">>, <<"A", "xlsx">> >>] >> }

\* a row typed into the sheet by hand: property B on 02-JUL-2025
HandRow ==
    [Property |-> "B", Date |-> DateStr(2), TotalOcc |-> AsStr(Num(4)),
     AvgRate |-> AsStr(Num(3)), Revenue |-> AsStr(Num(12)), Label |-> "Forecast",
     MonthYear |-> MonthYear(2),
     PickupOcc |-> AsStr(Num(0)), PickupRevenue |-> AsStr(Num(0))]

Written(ws) ==
    /\ other.n < MaxOtherWrites
    /\ wsActual' = ws
    /\ other' = [n |-> other.n + 1, at |-> other.at \cup {Phase},
                 rows |-> IF Phase = "clear" THEN ws.rows ELSE other.rows]
    /\ UNCHANGED <<wsBudget, pc, upload, final_df, existing, processed, updated,
                   status, prevBatch, uploads, selected_month, pivot_df, tabs,
                   norm_file, norm_out>>

\* a second upload's upsert, served by another worker
OtherUpsert ==
    /\ other.n < MaxOtherWrites
    /\ \E files \in OtherUploads : Written(upsert(wsActual, Batch(files)))

\* an edit of the sheet by hand: a row added under the last one
ExternalEdit ==
    /\ wsActual.header
    /\ Written([wsActual EXCEPT !.rows = Append(@, HandRow)])

----------------------------------------------------------------------------
(* Specifications                                                          *)

Idle ==
    /\ pc = "idle"
    /\ upload = <<>>
    /\ final_df = <<>>
    /\ existing = <<>>
    /\ processed = <<>>
    /\ updated = <<>>
    /\ status = NoStatus
    /\ prevBatch = <<>>
    /\ selected_month = "None"
    /\ pivot_df = <<>>
    /\ tabs = [kind |-> "none", tables |-> <<>>, month |-> "None"]
    /\ other = NoOther

\* Spec: uploads into an empty Actual sheet
Init ==
    /\ Idle
    /\ wsActual = EmptySheet
    /\ wsBudget = BudgetOfA
    /\ uploads = 0
    /\ norm_file = NoFile
    /\ norm_out = NotCalled

Next ==
    \/ HandleUploadNone
    \/ HandleUploadError
    \/ HandleUploadNoData
    \/ HandleUploadRead
    \/ Clear
    \/ ClearFails
    \/ Update
    \/ UpdateFails

Spec == Init /\ [][Next]_vars

(* SpecRefresh: one upload into a sheet an earlier run filled, with the    *)
(* refresh callbacks served while the upload is handled                    *)

SheetOfA ==
    [header |-> TRUE,
     rows |-> <<[Property |-> "A", Date |-> DateStr(1), TotalOcc |-> AsStr(Num(2)),
                 AvgRate |-> AsStr(Num(3)), Revenue |-> AsStr(Num(7)),
                 Label |-> "History", MonthYear |-> MonthYear(1),
                 PickupOcc |-> AsStr(Num(0)), PickupRevenue |-> AsStr(Num(0))]>>]

InitRefresh ==
    /\ Idle
    /\ wsActual = SheetOfA
    /\ wsBudget = BudgetOfA
    /\ uploads = MaxUploads - 1
    /\ norm_file = NoFile
    /\ norm_out = NotCalled

NextRefresh ==
    \/ Next
    \/ PopulateMonthDropdown
    \/ UpdateTabs

SpecRefresh == InitRefresh /\ [][NextRefresh]_vars

(* SpecRace: one upload into a sheet an earlier run filled, while other    *)
(* writers change the sheet                                                *)

NextRace ==
    \/ Next
    \/ OtherUpsert
    \/ ExternalEdit

SpecRace == InitRefresh /\ [][NextRace]_vars

(* SpecNorm: process_file on one workbook                                  *)

NormDateCells == {[forecast |-> FALSE, date |-> 1],
                  [forecast |-> FALSE, date |-> NaT],
                  [forecast |-> TRUE, date |-> NaT],
                  [forecast |-> TRUE, date |-> 2]}

NormRows ==
    {[Date |-> c, TotalOcc |-> Num(1), AvgRate |-> Num(3), Revenue |-> Num(5)] :
        c \in NormDateCells}

NormFiles ==
    {[contents |-> [readable |-> TRUE, rows |-> s], filename |-> f] :
        s \in SeqsUpTo(NormRows, MaxSourceRows), f \in Filenames}
    \cup {[contents |-> [readable |-> FALSE, rows |-> <<>>], filename |-> f] :
        f \in Filenames}

InitNorm ==
    /\ Idle
    /\ wsActual = EmptySheet
    /\ wsBudget = BudgetOfA
    /\ uploads = MaxUploads
    /\ norm_file \in NormFiles
    /\ norm_out = NotCalled

ProcessFile ==
    /\ ~norm_out.called
    /\ norm_out' = [called |-> TRUE, ok |-> process_file(norm_file).ok,
                    df |-> process_file(norm_file).df]
    /\ UNCHANGED <<wsActual, wsBudget, pc, upload, final_df, existing, processed,
                   updated, status, prevBatch, uploads, selected_month, pivot_df,
                   tabs, norm_file, other>>

SpecNorm == InitNorm /\ [][ProcessFile]_vars

(* SpecReport: the refresh callbacks on the sheets an earlier run left     *)

ReportOcc == {NaN, Num(0), Num(1), Num(2)}
ReportRevenue == {NaN, Num(6)}

ActualRows ==
    {[Property |-> p, Date |-> DateStr(d), TotalOcc |-> AsStr(o),
      AvgRate |-> AsStr(Num(3)), Revenue |-> AsStr(r), Label |-> l,
      MonthYear |-> MonthYear(d),
      PickupOcc |-> AsStr(Num(0)), PickupRevenue |-> AsStr(Num(0))] :
        p \in Properties, d \in Dates, o \in ReportOcc, r \in ReportRevenue,
        l \in {"History", "Forecast"}}

\* update_google_sheet writes its rows sorted; the sheets drawn here have one
\* row per (Property, Date)
Sorted(rows) ==
    LET df == existing_df([header |-> TRUE, rows |-> rows])
    IN  /\ df = sort_values(df)
        /\ \A i, j \in 1..Len(df) : SameKey(df[i], df[j]) => i = j

ActualSheets ==
    {EmptySheet}
    \cup {[header |-> TRUE, rows |-> s] :
            s \in {t \in SeqsUpTo(ActualRows, MaxActualRows) : Sorted(t)}}

BudgetRows ==
    {BudgetRow(p, d) : p \in Properties,
                       d \in {DateStr(1), DateStr(2), [txt |-> "text", v |-> 0]}}

BudgetSheets ==
    {EmptySheet}
    \cup {[header |-> TRUE, rows |-> s] : s \in SeqsUpTo(BudgetRows, MaxBudgetRows)}

InitReport ==
    /\ Idle
    /\ wsActual \in ActualSheets
    /\ wsBudget \in BudgetSheets
    /\ uploads = MaxUploads
    /\ norm_file = NoFile
    /\ norm_out = NotCalled

NextReport ==
    \/ PopulateMonthDropdown
    \/ UpdateTabs

SpecReport == InitReport /\ [][NextReport]_vars

----------------------------------------------------------------------------
(* Properties                                                              *)

\* handle_upload has returned the summary of a completed upsert
Done == pc = "idle" /\ status.kind = "rows updated"

Table == existing_df(wsActual)      \* the persisted table, parsed
InBatch(r) == \E k \in 1..Len(final_df) : SameKey(r, final_df[k])
Count(rows, r) == Cardinality({k \in 1..Len(rows) : rows[k] = r})
Values(r) == <<r.Property, r.Date, r.TotalOcc, AsStr(r.AvgRate), r.Revenue, r.Label>>

\* the difference of two cells with a missing one counted as 0
PickupMissingAsZero(new, prev) ==
    Num((IF new.nan THEN 0 ELSE new.v) - (IF prev.nan THEN 0 ELSE prev.v))

\* C1: after an upsert completes, no two rows of the persisted table share
\* the same (Property, Date) key.
C1_UniqueKeys ==
    Done => \A i, j \in 1..Len(Table) : SameKey(Table[i], Table[j]) => i = j

\* C2: after an upsert, each stored row of the batch has Pickup Occ and Pickup
\* Revenue equal to its new value minus the value of a prior row at its key in
\* the snapshot, a missing value counting as 0; both are 0 with no prior row.
C2_PickupMissingAsZero ==
    Done =>
        \A i \in 1..Len(Table) :
            LET s == Table[i]
                prior == {k \in 1..Len(existing) : SameKey(existing[k], s)}
            IN  InBatch(s) =>
                    IF prior = {}
                    THEN /\ ToNumeric(s.PickupOcc) = Num(0)
                         /\ ToNumeric(s.PickupRevenue) = Num(0)
                    ELSE \E k \in prior :
                         /\ ToNumeric(s.PickupOcc) =
                                PickupMissingAsZero(s.TotalOcc, existing[k].TotalOcc)
                         /\ ToNumeric(s.PickupRevenue) =
                                PickupMissingAsZero(s.Revenue, existing[k].Revenue)

\* C3: after an upsert, every row of the snapshot whose key is not in the
\* batch is in the table as often as before and unchanged, and the table has
\* no other row outside the batch's keys; the rows at the batch's keys carry
\* the values of the batch's rows, each of which is there; no key of the
\* snapshot is missing from the table.
C3_OnlyBatchKeysChange ==
    Done =>
        /\ \A i \in 1..Len(existing) :
               ~InBatch(existing[i]) =>
                   Count(Table, existing[i]) = Count(existing, existing[i])
        /\ \A i \in 1..Len(Table) :
               IF InBatch(Table[i])
               THEN \E k \in 1..Len(final_df) : Values(Table[i]) = Values(final_df[k])
               ELSE Count(existing, Table[i]) > 0
        /\ \A k \in 1..Len(final_df) :
               \E i \in 1..Len(Table) : Values(Table[i]) = Values(final_df[k])
        /\ \A i \in 1..Len(existing) :
               \E j \in 1..Len(Table) : SameKey(existing[i], Table[j])

\* an upsert kept a row outside its batch and replaced a row at a key of its
\* batch by a row with another occupancy
C3_Witness ==
    /\ Done
    /\ \E i \in 1..Len(existing) : ~InBatch(existing[i])
    /\ \E i \in 1..Len(existing), k \in 1..Len(final_df) :
           /\ SameKey(existing[i], final_df[k])
           /\ existing[i].TotalOcc /= final_df[k].TotalOcc

\* C4: when a batch is upserted right after an upsert of the same batch, the
\* table has the same set of rows (keys, occupancy, rate, revenue, label) as
\* after the first upsert, and every row at a key of the batch has Pickup Occ
\* 0 and Pickup Revenue 0.
C4_Idempotent ==
    (Done /\ prevBatch = final_df) =>
        /\ {Values(Table[i]) : i \in 1..Len(Table)} =
               {Values(existing[i]) : i \in 1..Len(existing)}
        /\ \A i \in 1..Len(Table) :
               InBatch(Table[i]) =>
                   /\ ToNumeric(Table[i].PickupOcc) = Num(0)
                   /\ ToNumeric(Table[i].PickupRevenue) = Num(0)

\* C5: while an upsert is in progress and after it ended, by its summary or
\* by an exception of the store, the persisted table is the table the upsert
\* read or the table it set out to write, and no refresh finds the sheet
\* empty.
C5_AtomicReplace ==
    /\ (pc /= "idle" \/ status.kind \in {"rows updated", "exception"}) =>
           \/ wsActual.header /\ Table = existing
           \/ wsActual.header /\ wsActual.rows = sheet_values(updated)
    /\ tabs.kind /= "Failed to fetch data from Google Sheets."

\* C6: when a file of an upload fails to normalize, the answer names that
\* file and the rows of the upload's other files are in the persisted table.
C6_OtherFilesUpserted ==
    (pc = "idle" /\ Failing(upload) /= <<>>) =>
        /\ status.kind = "Error processing"
        /\ status.name = upload[Failing(upload)[1]].filename
        /\ \A k \in 1..Len(upload) :
               LET df == process_file(upload[k]).df
               IN  \A n \in 1..Len(df) :
                       \E i \in 1..Len(Table) : Values(Table[i]) = Values(df[n])

\* the data rows of a tab's table, before its three synthetic rows
DataRows(t) == SubSeq(t.rows, 1, Len(t.rows) - 3)
Synthetic(t, n) == t.rows[Len(t.rows) - 3 + n]

\* sum of revenue over sum of occupancy of the rows of one partition
OwnRate(data, part) ==
    Ratio(Column(part, LAMBDA r : r.ActualRevenue),
          Column(part, LAMBDA r : r.ActualOcc))

\* the rate of a synthetic row is the quotient own.num / own.den
IsQuotient(rate, own) ==
    /\ rate.k = "ratio"
    /\ rate.num * own.den = own.num * rate.den

\* C7: in every table of a report whose History rows have occupancy, the
\* rate of Subtotal (History), of Subtotal (Forecast) and of Total is the sum
\* of revenue over the sum of occupancy of its own rows (where those rows have
\* occupancy to divide by).
C7_RateOfOwnPartition ==
    tabs.kind = "Tabs" =>
        \A n \in 1..Len(tabs.tables) :
            LET t    == tabs.tables[n]
                data == DataRows(t)
                hist == OwnRate(data, Partition(data, "History"))
                fore == OwnRate(data, Partition(data, "Forecast"))
                all  == OwnRate(data, data)
            IN  hist.k = "ratio" =>
                    /\ IsQuotient(Synthetic(t, 1).ActualRate, hist)
                    /\ fore.k = "ratio" => IsQuotient(Synthetic(t, 2).ActualRate, fore)
                    /\ all.k = "ratio" => IsQuotient(Synthetic(t, 3).ActualRate, all)

\* C8: whenever the refresh has report rows to show, it answers with the
\* tabs, one per property of the rows, and the rate of every synthetic row is
\* a number.
C8_ZeroOccupancyHandled ==
    pivot_df /= <<>> =>
        /\ tabs.kind = "Tabs"
        /\ \A k \in 1..Len(pivot_df) :
               \E n \in 1..Len(tabs.tables) : tabs.tables[n].label = pivot_df[k].Property
        /\ \A n \in 1..Len(tabs.tables), m \in 1..3 :
               Synthetic(tabs.tables[n], m).ActualRate.k = "ratio"

\* the rows of a sheet with a parseable date, as the refresh reads them
ActualSide == actual_df_clean(wsActual, tabs.month)
BudgetSide == budget_df_clean(wsBudget)
Joined(r, a, b) ==
    /\ SameKey(r, a)
    /\ r.ActualOcc = a.TotalOcc /\ r.ActualRevenue = a.Revenue
    /\ r.BudgetOcc = b.TotalOcc /\ r.BudgetRevenue = b.Revenue
    /\ r.BudgetRate = b.AvgRate

\* C9: after a refresh, every Actual row (of the month shown) with a parseable
\* date and an occupancy is in pivot_df once for every Budget row of its key,
\* with that row's Budget fields, and once with null Budget fields when Budget
\* has no row of its key; every row of pivot_df has the key of an Actual row.
C9_OuterJoinKeepsActual ==
    tabs.kind /= "none" =>
        /\ \A i \in 1..Len(ActualSide) :
               LET a == ActualSide[i]
                   match == {k \in 1..Len(BudgetSide) : SameKey(a, BudgetSide[k])}
               IN  ~a.TotalOcc.nan =>
                       IF match = {}
                       THEN \E k \in 1..Len(pivot_df) : Joined(pivot_df[k], a, NoSide)
                       ELSE \A m \in match :
                                \E k \in 1..Len(pivot_df) :
                                    Joined(pivot_df[k], a, BudgetSide[m])
        /\ \A k \in 1..Len(pivot_df) :
               \E i \in 1..Len(ActualSide) : SameKey(pivot_df[k], ActualSide[i])

\* C10: every row process_file returns is labelled History when its source
\* row precedes the first source row whose date text contains "Forecast", or
\* when no source row does, and Forecast otherwise; the rows returned are the
\* source rows with a parseable date, each under its source position.
C10_LabelBySourcePosition ==
    (norm_out.called /\ norm_out.ok) =>
        LET src     == norm_file.contents.rows
            markers == {i \in 1..Len(src) : src[i].Date.forecast}
            df      == norm_out.df
        IN  /\ \A k \in 1..Len(df) :
                   /\ df[k].idx \in 1..Len(src)
                   /\ df[k].Date = src[df[k].idx].Date.date
                   /\ df[k].Label =
                          IF \E m \in markers : m <= df[k].idx
                          THEN "Forecast" ELSE "History"
            /\ \A i \in 1..Len(src) :
                   src[i].Date.date /= NaT =>
                       Cardinality({k \in 1..Len(df) : df[k].idx = i}) = 1

\* a workbook with a dated row before the marker, a row without a date that
\* was discarded, and a dated row at the marker
C10_Witness ==
    /\ norm_out.called /\ norm_out.ok
    /\ Len(norm_out.df) < Len(norm_file.contents.rows)
    /\ \E k \in 1..Len(norm_out.df) : norm_out.df[k].Label = "History"
    /\ \E k \in 1..Len(norm_out.df) :
           /\ norm_out.df[k].Label = "Forecast"
           /\ norm_file.contents.rows[norm_out.df[k].idx].Date.forecast

\* the last row of the batch at the key of r
LastOccurrence(r) ==
    LET at == {k \in 1..Len(final_df) : SameKey(final_df[k], r)}
    IN  final_df[CHOOSE k \in at : \A m \in at : m <= k]

\* p is new - prev where both are numbers
DifferenceOf(p, new, prev) ==
    (~new.nan /\ ~prev.nan) => ToNumeric(p) = Num(new.v - prev.v)

\* C11: after an upsert, every row of the table at a key of the batch carries
\* the values of the last row of the batch at that key, and where the snapshot
\* has a row at the key, its pickups are the last row's occupancy and revenue
\* minus those of a snapshot row at the key (where both are numbers).
C11_LastOccurrenceWins ==
    Done =>
        \A i \in 1..Len(Table) :
            LET s     == Table[i]
                prior == {k \in 1..Len(existing) : SameKey(existing[k], s)}
            IN  InBatch(s) =>
                    /\ Values(s) = Values(LastOccurrence(s))
                    /\ prior /= {} =>
                           \E k \in prior :
                               /\ DifferenceOf(s.PickupOcc,
                                      LastOccurrence(s).TotalOcc, existing[k].TotalOcc)
                               /\ DifferenceOf(s.PickupRevenue,
                                      LastOccurrence(s).Revenue, existing[k].Revenue)

\* other writers changed the sheet between the read and the replace of the
\* upsert that has completed, and at no later time
RacedBeforeReplace == Done /\ other.at \in {{"clear"}, {"before", "clear"}}

\* the rows the other writers left that the upsert's snapshot does not have
OthersRows ==
    LET df   == existing_df([header |-> TRUE, rows |-> other.rows])
        keep == SelectIdx(df, LAMBDA r : Count(existing, r) = 0)
    IN  [k \in 1..Len(keep) |-> df[keep[k]]]

\* C12: when other writers change the sheet after an upsert has read it and
\* before it starts to replace it, the table after the upsert is the one
\* computed from the snapshot the upsert read, and no row the other writers
\* left at a key outside the upsert's batch is in it.
C12_LostUpdate ==
    RacedBeforeReplace =>
        /\ wsActual =
               [header |-> TRUE,
                rows |-> sheet_values(updated_df(existing,
                                                 compare_df(final_df, existing)))]
        /\ \A k \in 1..Len(OthersRows) :
               ~InBatch(OthersRows[k]) => Count(Table, OthersRows[k]) = 0

\* an upsert completed after another writer had added, between its read and
\* its replace, a row at a key outside its batch: the row is gone
C12_Witness ==
    /\ RacedBeforeReplace
    /\ \E k \in 1..Len(OthersRows) :
           /\ ~InBatch(OthersRows[k])
           /\ \A i \in 1..Len(Table) : ~SameKey(Table[i], OthersRows[k])

====
